---- MODULE Spec2Model ----
(***************************************************************************)
(* AggregateByField.execute (n8n community node): groups the input items   *)
(* by the value of one field and emits one output item per group.          *)
(*                                                                         *)
(* Strings are sequences of characters, so that trim, split, includes,     *)
(* String() and localeCompare are computed and not assumed.  JSON values   *)
(* are tagged records; `undefined' is a value of its own.  The model       *)
(* follows the implementation that resolves the field with lodash get,     *)
(* trims the field name and raises the execution hint.                     *)
(***************************************************************************)
EXTENDS Integers, Sequences, FiniteSets, TLC

VARIABLES
    pc,                 \* position inside execute
    items,              \* this.getInputData(): sequence of item.json values
    fieldParam,         \* the node parameter 'fieldToGroupBy' as configured
    fieldToGroupBy,     \* trimmed parameter
    outputFieldName,
    includeGroupKey,
    disableDotNotation,
    handleMissingValues,
    sortGroups,
    includeItemCount,
    itemCountFieldName,
    itemIndex,          \* loop counter of the grouping loop
    fieldFoundInItems,  \* boolean[] of the grouping loop
    grouped,            \* Map<string, IDataObject[]>: [keys |-> insertion order, vals |-> key -> members]
    members,            \* per key, the input positions of the pushed items (history of grouped)
    groupKeys,          \* Array.from(grouped.keys()), then sorted
    outputItems,        \* the returned INodeExecutionData[]
    hints,              \* number of addExecutionHints calls
    error,              \* the thrown NodeOperationError, or NoError
    firstRun            \* in a run fed with a first run's output: the keys of that first run

vars == <<pc, items, fieldParam, fieldToGroupBy, outputFieldName, includeGroupKey, disableDotNotation,
          handleMissingValues, sortGroups, includeItemCount, itemCountFieldName, itemIndex,
          fieldFoundInItems, grouped, members, groupKeys, outputItems, hints, error, firstRun>>

-----------------------------------------------------------------------------
(* Bounds *)

MaxItems == 3

-----------------------------------------------------------------------------
(* JavaScript values *)

Undef == [t |-> "undefined"]
Null == [t |-> "null"]
Str(s) == [t |-> "string", v |-> s]
Num(n) == [t |-> "number", v |-> n]
Bool(b) == [t |-> "boolean", v |-> b]
Obj(f) == [t |-> "object", v |-> f]
Arr(a) == [t |-> "array", v |-> a]

EmptyObj == Obj(<<>>)

IsNullish(x) == x.t \in {"undefined", "null"}

(* Text literals *)
sUndefined == <<"u","n","d","e","f","i","n","e","d">>
sNull == <<"n","u","l","l">>
sTrue == <<"t","r","u","e">>
sFalse == <<"f","a","l","s","e">>
sObjectObject == <<"[","o","b","j","e","c","t"," ","O","b","j","e","c","t","]">>
sItems == <<"i","t","e","m","s">>
sItemCount == <<"i","t","e","m","C","o","u","n","t">>
sLength == <<"l","e","n","g","t","h">>
sNoField == <<"N","o"," ","f","i","e","l","d"," ","s","p","e","c","i","f","i","e","d">>
sPleaseSpecify == <<"P","l","e","a","s","e"," ","s","p","e","c","i","f","y"," ","a"," ",
                    "f","i","e","l","d"," ","t","o"," ","g","r","o","u","p"," ","b","y">>

Digits == <<"0","1","2","3","4","5","6","7","8","9">>

-----------------------------------------------------------------------------
(* String.prototype helpers *)

IsSpace(c) == c \in {" ", "\t", "\n"}

RECURSIVE TrimStart(_)
TrimStart(s) == IF s # <<>> /\ IsSpace(Head(s)) THEN TrimStart(Tail(s)) ELSE s

RECURSIVE TrimEnd(_)
TrimEnd(s) == IF s # <<>> /\ IsSpace(s[Len(s)]) THEN TrimEnd(SubSeq(s, 1, Len(s) - 1)) ELSE s

\* trim() forgotten
Trim_None(s) == s

Trim(s) == TrimEnd(TrimStart(s))

Includes(s, c) == \E i \in 1..Len(s) : s[i] = c

\* s.split(c): the pieces between the occurrences of c, empty pieces included
RECURSIVE SplitFrom(_, _, _)
SplitFrom(s, c, cur) ==
    IF s = <<>> THEN <<cur>>
    ELSE IF Head(s) = c THEN <<cur>> \o SplitFrom(Tail(s), c, <<>>)
    ELSE SplitFrom(Tail(s), c, Append(cur, Head(s)))

Split(s, c) == SplitFrom(s, c, <<>>)

Pop(a) == a[Len(a)]

-----------------------------------------------------------------------------
(* String(value) *)

RECURSIVE NatToStr(_)
NatToStr(n) == IF n < 10 THEN <<Digits[n + 1]>> ELSE NatToStr(n \div 10) \o <<Digits[(n % 10) + 1]>>

NumToStr(n) == IF n < 0 THEN <<"-">> \o NatToStr(0 - n) ELSE NatToStr(n)

RECURSIVE ToStr(_)
RECURSIVE Join(_, _)
\* Array.prototype.join(","): null and undefined elements give the empty string
Join(a, i) ==
    IF i > Len(a) THEN <<>>
    ELSE (IF i > 1 THEN <<",">> ELSE <<>>)
         \o (IF IsNullish(a[i]) THEN <<>> ELSE ToStr(a[i]))
         \o Join(a, i + 1)

ToStr(x) ==
    CASE x.t = "undefined" -> sUndefined
      [] x.t = "null" -> sNull
      [] x.t = "string" -> x.v
      [] x.t = "number" -> NumToStr(x.v)
      [] x.t = "boolean" -> (IF x.v THEN sTrue ELSE sFalse)
      [] x.t = "object" -> sObjectObject
      [] x.t = "array" -> Join(x.v, 1)

-----------------------------------------------------------------------------
(* Property access value[key] on a non-nullish value (own properties only) *)

IsDigit(c) == \E i \in 1..10 : Digits[i] = c

DigitVal(c) == (CHOOSE i \in 1..10 : Digits[i] = c) - 1

RECURSIVE ParseNat(_, _)
ParseNat(s, acc) == IF s = <<>> THEN acc ELSE ParseNat(Tail(s), acc * 10 + DigitVal(Head(s)))

\* a canonical array index: "0", or digits without a leading zero
IsIndex(key) ==
    /\ key # <<>>
    /\ \A i \in 1..Len(key) : IsDigit(key[i])
    /\ (Len(key) > 1 => key[1] # "0")

GetProp(x, key) ==
    CASE x.t = "object" -> (IF key \in DOMAIN x.v THEN x.v[key] ELSE Undef)
      [] x.t = "array" ->
            (IF key = sLength THEN Num(Len(x.v))
             ELSE IF IsIndex(key) /\ ParseNat(key, 0) < Len(x.v) THEN x.v[ParseNat(key, 0) + 1]
             ELSE Undef)
      [] x.t = "string" ->
            (IF key = sLength THEN Num(Len(x.v))
             ELSE IF IsIndex(key) /\ ParseNat(key, 0) < Len(x.v) THEN Str(<<x.v[ParseNat(key, 0) + 1]>>)
             ELSE Undef)
      [] OTHER -> Undef

-----------------------------------------------------------------------------
(* lodash get(object, path) for a string path without bracket syntax *)

\* no look at the object: every dotted path is split
IsKey_NoLiteral(path, object) == ~Includes(path, ".")

\* isKey: a path with no dot is one key; a dotted path is one key when the
\* object has a property of exactly that name
IsKey(path, object) ==
    \/ ~Includes(path, ".")
    \/ (~IsNullish(object) /\ object.t = "object" /\ path \in DOMAIN object.v)

CastPath(path, object) == IF IsKey(path, object) THEN <<path>> ELSE Split(path, ".")

\* baseGet: descend while the current value is neither null nor undefined
RECURSIVE BaseGet(_, _, _)
BaseGet(object, path, index) ==
    IF ~IsNullish(object) /\ index < Len(path)
    THEN BaseGet(GetProp(object, path[index + 1]), path, index + 1)
    ELSE IF index # 0 /\ index = Len(path) THEN object ELSE Undef

Get(object, path) ==
    IF IsNullish(object) THEN Undef ELSE BaseGet(object, CastPath(path, object), 0)

-----------------------------------------------------------------------------
(* String.prototype.localeCompare: multi-level collation.  Primary level:  *)
(* white space and punctuation before digits before letters, letters       *)
(* without regard to case or accent; secondary level: accents; tertiary    *)
(* level: lower case before upper case.  Canonically equivalent strings    *)
(* (U+00C5 and U+212B) compare equal.                                      *)

PrimaryOrder == <<" ", ",", ".", "[", "]", "-",
                  "0","1","2","3","4","5","6","7","8","9",
                  "a","b","c","d","e","f","g","h","i","j","k","l","m",
                  "n","o","p","q","r","s","t","u","v","w","x","y","z">>

UpperCase == <<"A","B","C","D","E","F","G","H","I","J","K","L","M",
               "N","O","P","Q","R","S","T","U","V","W","X","Y","Z">>

LowerCase == <<"a","b","c","d","e","f","g","h","i","j","k","l","m",
               "n","o","p","q","r","s","t","u","v","w","x","y","z">>

IsUpper(c) == \E i \in 1..Len(UpperCase) : UpperCase[i] = c

IsRingA(c) == c \in {"U+00C5", "U+212B"}

BaseChar(c) ==
    IF IsRingA(c) THEN "a"
    ELSE IF IsUpper(c) THEN LowerCase[CHOOSE i \in 1..Len(UpperCase) : UpperCase[i] = c]
    ELSE c

Primary(c) == CHOOSE i \in 1..Len(PrimaryOrder) : PrimaryOrder[i] = BaseChar(c)

Secondary(c) == IF IsRingA(c) THEN 1 ELSE 0

Tertiary(c) == IF IsUpper(c) \/ IsRingA(c) THEN 1 ELSE 0

Weight(c, level) ==
    CASE level = 1 -> Primary(c)
      [] level = 2 -> Secondary(c)
      [] level = 3 -> Tertiary(c)

\* lexicographic comparison of the weights of one level
RECURSIVE CompareLevel(_, _, _)
CompareLevel(a, b, level) ==
    IF a = <<>> /\ b = <<>> THEN 0
    ELSE IF a = <<>> THEN -1
    ELSE IF b = <<>> THEN 1
    ELSE IF Weight(Head(a), level) < Weight(Head(b), level) THEN -1
    ELSE IF Weight(Head(a), level) > Weight(Head(b), level) THEN 1
    ELSE CompareLevel(Tail(a), Tail(b), level)

LocaleCompare(a, b) ==
    IF CompareLevel(a, b, 1) # 0 THEN CompareLevel(a, b, 1)
    ELSE IF CompareLevel(a, b, 2) # 0 THEN CompareLevel(a, b, 2)
    ELSE CompareLevel(a, b, 3)

-----------------------------------------------------------------------------
(* Array.prototype.sort(compareFn): stable *)

CompareAsc(a, b) == LocaleCompare(a, b)

\* the descending comparator left ascending
CompareDesc_Same(a, b) == LocaleCompare(a, b)

CompareDesc(a, b) == LocaleCompare(b, a)

Compare(a, b, mode) == IF mode = "asc" THEN CompareAsc(a, b) ELSE CompareDesc(a, b)

\* an unstable sort: x goes before the elements it compares equal to
RECURSIVE Insert_Unstable(_, _, _)
Insert_Unstable(sorted, x, mode) ==
    IF sorted = <<>> THEN <<x>>
    ELSE IF Compare(x, Head(sorted), mode) <= 0 THEN <<x>> \o sorted
    ELSE <<Head(sorted)>> \o Insert_Unstable(Tail(sorted), x, mode)

\* insert x behind every element that does not compare greater than x
RECURSIVE Insert(_, _, _)
Insert(sorted, x, mode) ==
    IF sorted = <<>> THEN <<x>>
    ELSE IF Compare(x, Head(sorted), mode) < 0 THEN <<x>> \o sorted
    ELSE <<Head(sorted)>> \o Insert(Tail(sorted), x, mode)

RECURSIVE SortFrom(_, _, _)
SortFrom(a, sorted, mode) ==
    IF a = <<>> THEN sorted ELSE SortFrom(Tail(a), Insert(sorted, Head(a), mode), mode)

Sort(a, mode) == SortFrom(a, <<>>, mode)

-----------------------------------------------------------------------------
(* Input records and parameters *)

k == <<"k">>
u == <<"u">>
uk == <<"u", ".", "k">>
uDot == <<"u", ".">>

\* { k: "b", u: { k: "a", "": "c" } }
Rec1 == Obj((k :> Str(<<"b">>)) @@ (u :> Obj((k :> Str(<<"a">>)) @@ (<<>> :> Str(<<"c">>)))))
\* { k: 5, u: { k: "Å" } }
Rec2 == Obj((k :> Num(5)) @@ (u :> Obj(k :> Str(<<"U+00C5">>))))
\* { k: "5", u: { k: "Å" } }
Rec3 == Obj((k :> Str(<<"5">>)) @@ (u :> Obj(k :> Str(<<"U+212B">>))))
\* { k: null, u: {} }
Rec4 == Obj((k :> Null) @@ (u :> EmptyObj))
\* { "u.k": "a", u: "xy" }
Rec5 == Obj((uk :> Str(<<"a">>)) @@ (u :> Str(<<"x", "y">>)))

Records == {Rec1, Rec2, Rec3, Rec4, Rec5}

SeqsUpTo(S, n) == UNION {[1..m -> S] : m \in 0..n}

Inputs == SeqsUpTo(Records, MaxItems)

Policies == {"skip", "groupUndefined", "groupNull", "groupEmpty"}

SortModes == {"none", "asc", "desc"}

\* the parameters of a run that exercises the grouping loop and the sort
Params ==
    [fieldToGroupBy : {<<>>, <<" ">>, <<" ", "k", " ">>, uk},
     outputFieldName : {sItems},
     includeGroupKey : {TRUE},
     options : [disableDotNotation : {Undef, Bool(TRUE)},
                handleMissingValues : Policies \cup {""},
                sortGroups : SortModes \cup {""},
                includeItemCount : {Undef},
                itemCountFieldName : {Undef}]]

-----------------------------------------------------------------------------
(* JavaScript truthiness and `value || fallback' *)

Truthy(x) ==
    CASE x.t \in {"undefined", "null"} -> FALSE
      [] x.t = "boolean" -> x.v
      [] x.t = "string" -> x.v # <<>>
      [] x.t = "number" -> x.v # 0
      [] OTHER -> TRUE

OrElse(x, fallback) == IF Truthy(x) THEN x.v ELSE fallback

\* the same for an option of type `options', whose values are names
NameOrElse(name, fallback) == IF name = "" THEN fallback ELSE name

-----------------------------------------------------------------------------
(* Map<string, IDataObject[]>: keys in insertion order *)

NewMap == [keys |-> <<>>, vals |-> <<>>]

MapHas(m, key) == \E i \in 1..Len(m.keys) : m.keys[i] = key

MapSet(m, key, val) ==
    [keys |-> IF MapHas(m, key) THEN m.keys ELSE Append(m.keys, key),
     vals |-> (key :> val) @@ m.vals]

MapGet(m, key) == m.vals[key]

MapKeys(m) == m.keys

MapSize(m) == Len(m.keys)

-----------------------------------------------------------------------------
(* The state machine *)

NoError == <<>>

Init ==
    /\ pc = "start"
    /\ items = <<>>
    /\ fieldParam = <<>>
    /\ fieldToGroupBy = <<>>
    /\ outputFieldName = <<>>
    /\ includeGroupKey = FALSE
    /\ disableDotNotation = FALSE
    /\ handleMissingValues = ""
    /\ sortGroups = ""
    /\ includeItemCount = FALSE
    /\ itemCountFieldName = <<>>
    /\ itemIndex = 0
    /\ fieldFoundInItems = <<>>
    /\ grouped = NewMap
    /\ members = <<>>
    /\ groupKeys = <<>>
    /\ outputItems = <<>>
    /\ hints = 0
    /\ error = NoError
    /\ firstRun = <<>>

\* the empty-input check left out
IsEmptyInput_Never(input) == FALSE

\* items.length === 0
IsEmptyInput(input) == Len(input) = 0

\* execute, up to the grouping loop: input, empty-input return, parameters, field check
Begin(input, params) ==
    /\ items' = input
    /\ fieldParam' = params.fieldToGroupBy
    /\ itemIndex' = 0
    /\ fieldFoundInItems' = <<>>
    /\ grouped' = NewMap
    /\ members' = <<>>
    /\ groupKeys' = <<>>
    /\ outputItems' = <<>>
    /\ hints' = 0
    /\ IF IsEmptyInput(input)
       THEN /\ pc' = "done"
            /\ error' = NoError
            /\ UNCHANGED <<fieldToGroupBy, outputFieldName, includeGroupKey, disableDotNotation,
                           handleMissingValues, sortGroups, includeItemCount, itemCountFieldName>>
       ELSE /\ fieldToGroupBy' = Trim(params.fieldToGroupBy)
            /\ outputFieldName' = params.outputFieldName
            /\ includeGroupKey' = params.includeGroupKey
            /\ disableDotNotation' = OrElse(params.options.disableDotNotation, FALSE)
            /\ handleMissingValues' = NameOrElse(params.options.handleMissingValues, "skip")
            /\ sortGroups' = NameOrElse(params.options.sortGroups, "none")
            /\ includeItemCount' = OrElse(params.options.includeItemCount, FALSE)
            /\ itemCountFieldName' = OrElse(params.options.itemCountFieldName, sItemCount)
            /\ IF Trim(params.fieldToGroupBy) = <<>>
               THEN /\ pc' = "error"
                    /\ error' = <<[message |-> sNoField, description |-> sPleaseSpecify]>>
               ELSE /\ pc' = "loop"
                    /\ error' = NoError

Start ==
    /\ pc = "start"
    /\ \E input \in Inputs, params \in Params : Begin(input, params)
    /\ UNCHANGED firstRun

\* the value of the grouping field of one item
FieldValue(json, path, noDots) == IF ~noDots THEN Get(json, path) ELSE GetProp(json, path)

\* the substitutes of groupNull and groupUndefined exchanged
MissingValue_Swapped(groupKey, policy) ==
    CASE policy = "groupUndefined" -> Str(sNull)
      [] policy = "groupNull" -> Str(sUndefined)
      [] policy = "groupEmpty" -> Str(<<>>)
      [] OTHER -> groupKey

\* the switch on handleMissingValues, for a value that is undefined or null
MissingValue(groupKey, policy) ==
    CASE policy = "groupUndefined" -> Str(sUndefined)
      [] policy = "groupNull" -> Str(sNull)
      [] policy = "groupEmpty" -> Str(<<>>)
      [] OTHER -> groupKey

IsSkipped(groupKey, policy) == IsNullish(groupKey) /\ policy = "skip"

\* the key made from the value and its type, not from String(value)
KeyString_Typed(groupKey, policy) ==
    LET value == IF IsNullish(groupKey) THEN MissingValue(groupKey, policy) ELSE groupKey
    IN  IF value.t = "number" THEN <<"#">> \o ToStr(value) ELSE ToStr(value)

KeyString(groupKey, policy) ==
    ToStr(IF IsNullish(groupKey) THEN MissingValue(groupKey, policy) ELSE groupKey)

\* null counted as not found
FieldFound_NotNull(groupKey) == ~IsNullish(groupKey)

FieldFound(groupKey) == groupKey.t # "undefined"

\* the has-check lost: every item starts its group anew
AddToGroup_Reset(m, keyString, json) == MapSet(m, keyString, <<json>>)

\* grouped after one item: has / set / get / push
AddToGroup(m, keyString, json) ==
    LET m1 == IF ~MapHas(m, keyString) THEN MapSet(m, keyString, <<>>) ELSE m
    IN  MapSet(m1, keyString, Append(MapGet(m1, keyString), json))

\* one iteration of the grouping loop
GroupItem ==
    /\ pc = "loop"
    /\ itemIndex < Len(items)
    /\ LET json == items[itemIndex + 1]
           groupKey == FieldValue(json, fieldToGroupBy, disableDotNotation)
           keyString == KeyString(groupKey, handleMissingValues)
       IN  /\ fieldFoundInItems' = Append(fieldFoundInItems, FieldFound(groupKey))
           /\ IF IsSkipped(groupKey, handleMissingValues)
              THEN UNCHANGED <<grouped, members>>
              ELSE /\ grouped' = AddToGroup(grouped, keyString, json)
                   /\ members' = (keyString :> (IF keyString \in DOMAIN members
                                                THEN Append(members[keyString], itemIndex)
                                                ELSE <<itemIndex>>)) @@ members
    /\ itemIndex' = itemIndex + 1
    /\ UNCHANGED <<pc, items, fieldParam, fieldToGroupBy, outputFieldName, includeGroupKey, disableDotNotation,
                   handleMissingValues, sortGroups, includeItemCount, itemCountFieldName,
                   groupKeys, outputItems, hints, error, firstRun>>

\* fieldFoundInItems.every((found) => !found)
NoneFound(found) == \A i \in 1..Len(found) : ~found[i]

\* the sort applied whatever the mode
SortedKeys_Always(keys, mode) == Sort(keys, "asc")

SortedKeys(keys, mode) ==
    IF mode = "asc" THEN Sort(keys, "asc")
    ELSE IF mode = "desc" THEN Sort(keys, "desc")
    ELSE keys

\* the whole path used as the name
OutputKeyName_WholePath(path, noDots) == path

\* getOutputKeyName
OutputKeyName(path, noDots) ==
    IF ~noDots /\ Includes(path, ".") THEN Pop(Split(path, ".")) ELSE path

\* obj[name] = value
Assign(obj, name, value) == (name :> value) @@ obj

OutputJson(key, groupItems, path, noDots, withKey, arrayName, withCount, countName) ==
    LET j1 == IF withKey THEN Assign(<<>>, OutputKeyName(path, noDots), Str(key)) ELSE <<>>
        j2 == Assign(j1, arrayName, Arr(groupItems))
        j3 == IF withCount THEN Assign(j2, countName, Num(Len(groupItems))) ELSE j2
    IN  Obj(j3)

\* Array.from({ length: n }, (_, i) => ({ item: i }))
PairedItem(groupItems) == [i \in 1..Len(groupItems) |-> [item |-> i - 1]]

OutputItem(key, groupItems, path, noDots, withKey, arrayName, withCount, countName) ==
    [json |-> OutputJson(key, groupItems, path, noDots, withKey, arrayName, withCount, countName),
     pairedItem |-> PairedItem(groupItems)]

\* after the loop: execution hint, empty return, sort, output items, return
Finish ==
    /\ pc = "loop"
    /\ itemIndex = Len(items)
    /\ hints' = IF NoneFound(fieldFoundInItems) THEN hints + 1 ELSE hints
    /\ IF MapSize(grouped) = 0
       THEN UNCHANGED <<groupKeys, outputItems>>
       ELSE /\ groupKeys' = SortedKeys(MapKeys(grouped), sortGroups)
            /\ outputItems' = [g \in 1..MapSize(grouped) |->
                                 OutputItem(groupKeys'[g], MapGet(grouped, groupKeys'[g]),
                                            fieldToGroupBy, disableDotNotation, includeGroupKey,
                                            outputFieldName, includeItemCount, itemCountFieldName)]
    /\ pc' = "done"
    /\ UNCHANGED <<items, fieldParam, fieldToGroupBy, outputFieldName, includeGroupKey, disableDotNotation,
                   handleMissingValues, sortGroups, includeItemCount, itemCountFieldName,
                   itemIndex, fieldFoundInItems, grouped, members, error, firstRun>>

Next == Start \/ GroupItem \/ Finish

Spec == Init /\ [][Next]_vars

-----------------------------------------------------------------------------
(* Runs that exercise the construction of the output items, and a second   *)
(* run of execute over the output of a first one                           *)

OutputInputs == SeqsUpTo({Rec1, Rec2, Rec3}, MaxItems)

OutputParams ==
    [fieldToGroupBy : {k, uk, uDot},
     outputFieldName : {sItems, k},
     includeGroupKey : BOOLEAN,
     options : [disableDotNotation : {Undef, Bool(TRUE)},
                handleMissingValues : {"", "groupEmpty"},
                sortGroups : {"", "asc"},
                includeItemCount : {Undef, Bool(TRUE)},
                itemCountFieldName : {Undef, Str(k), Str(sItems)}]]

StartOutput ==
    /\ pc = "start"
    /\ \E input \in OutputInputs, params \in OutputParams : Begin(input, params)
    /\ UNCHANGED firstRun

\* execute again: the input is the first run's output, the grouping field is
\* the name of the group-key field it emitted, the other parameters are kept
Rerun ==
    /\ pc = "done"
    /\ firstRun = <<>>
    /\ sortGroups = "asc"
    /\ includeGroupKey
    /\ outputItems # <<>>
    /\ firstRun' = <<[firstSeen |-> MapKeys(grouped), groupKeys |-> groupKeys]>>
    /\ Begin([g \in 1..Len(outputItems) |-> outputItems[g].json],
             [fieldToGroupBy |-> OutputKeyName(fieldToGroupBy, disableDotNotation),
              outputFieldName |-> outputFieldName,
              includeGroupKey |-> includeGroupKey,
              options |-> [disableDotNotation |-> Bool(disableDotNotation),
                           handleMissingValues |-> handleMissingValues,
                           sortGroups |-> "asc",
                           includeItemCount |-> Bool(includeItemCount),
                           itemCountFieldName |-> Str(itemCountFieldName)]])

NextOutput == StartOutput \/ GroupItem \/ Finish \/ Rerun

SpecOutput == Init /\ [][NextOutput]_vars

-----------------------------------------------------------------------------
(* Runs that exercise the resolution of the grouping field: paths into     *)
(* mappings, sequences, strings, numbers and null                          *)

u0 == <<"u", ".", "0">>
uLength == <<"u", ".">> \o sLength

\* { u: [ { k: "d" } ] }
Rec6 == Obj(u :> Arr(<<Obj(k :> Str(<<"d">>))>>))
\* { k: true, u: 7 }
Rec7 == Obj((k :> Bool(TRUE)) @@ (u :> Num(7)))
\* { u: null }
Rec8 == Obj(u :> Null)

PathInputs == SeqsUpTo({Rec1, Rec4, Rec5, Rec6, Rec7, Rec8}, MaxItems)

PathParams ==
    [fieldToGroupBy : {k, uk, u0, uLength},
     outputFieldName : {sItems},
     includeGroupKey : {TRUE},
     options : [disableDotNotation : {Undef, Bool(TRUE)},
                handleMissingValues : {"", "groupNull"},
                sortGroups : {""},
                includeItemCount : {Undef},
                itemCountFieldName : {Undef}]]

StartPath ==
    /\ pc = "start"
    /\ \E input \in PathInputs, params \in PathParams : Begin(input, params)
    /\ UNCHANGED firstRun

NextPath == StartPath \/ GroupItem \/ Finish

SpecPath == Init /\ [][NextPath]_vars

\* getNestedValue of the older copy of the node: its own walk over path.split('.')
RECURSIVE NestedWalk(_, _)
NestedWalk(value, keys) ==
    IF keys = <<>> THEN value
    ELSE IF IsNullish(value) THEN Undef
    ELSE IF value.t \in {"object", "array"} THEN NestedWalk(GetProp(value, Head(keys)), Tail(keys))
    ELSE Undef

GetNestedValue(obj, path) == NestedWalk(obj, Split(path, "."))

-----------------------------------------------------------------------------
(* Vocabulary of the properties *)

\* input positions handled by the grouping loop so far
Processed == 0..(itemIndex - 1)

\* what the grouping field of the item at input position i resolves to
ValueAt(i) == FieldValue(items[i + 1], fieldToGroupBy, disableDotNotation)

NotFoundAt(i) == ValueAt(i).t \in {"undefined", "null"}

Dropped(i) == handleMissingValues = "skip" /\ NotFoundAt(i)

\* the places (group, position in its member list) where input position i was put
PlacesOf(i) == {p \in UNION {{<<key, j>> : j \in 1..Len(members[key])} : key \in DOMAIN members} :
                    members[p[1]][p[2]] = i}

Range(a) == {a[i] : i \in 1..Len(a)}

Reverse(a) == [i \in 1..Len(a) |-> a[Len(a) + 1 - i]]

Returned == pc = "done" /\ outputItems # <<>>

\* nothing but white space
IsBlank(s) == \A i \in 1..Len(s) : s[i] \in {" ", "\t", "\n"}

\* the member list carried by the g-th output item
MemberList(g) == outputItems[g].json.v[outputFieldName]

\* the group-key field of the g-th output item
EmittedKey(g) == outputItems[g].json.v[OutputKeyName(fieldToGroupBy, disableDotNotation)]

\* the group keys of the output items, in emission order
EmittedKeys == [g \in 1..Len(outputItems) |-> EmittedKey(g).v]

\* the substitute the missing-value policy names for a value that is not found
Substitute(policy) ==
    CASE policy = "groupUndefined" -> Str(sUndefined)
      [] policy = "groupNull" -> Str(sNull)
      [] policy = "groupEmpty" -> Str(<<>>)

\* the string the item at input position i (not dropped) normalizes to
NormalizedAt(i) == ToStr(IF NotFoundAt(i) THEN Substitute(handleMissingValues) ELSE ValueAt(i))

Retained == {i \in Processed : ~Dropped(i)}

\* the first input position that normalizes to key
FirstSeen(key) ==
    CHOOSE i \in Retained :
        /\ NormalizedAt(i) = key
        /\ \A h \in Retained : NormalizedAt(h) = key => i <= h

\* input position i sits in the group of key, once, and in no other group
OnlyIn(i, key) ==
    /\ key \in DOMAIN members
    /\ \E j \in 1..Len(members[key]) : PlacesOf(i) = {<<key, j>>}

\* the key of the group input position i was put into
GroupOf(i) == CHOOSE key \in DOMAIN members : \E j \in 1..Len(members[key]) : members[key][j] = i

-----------------------------------------------------------------------------
C2_PairedItemListsMemberPositions ==
    Returned =>
        \A g \in 1..Len(outputItems) :
            outputItems[g].pairedItem = [j \in 1..Len(members[groupKeys[g]]) |->
                                            [item |-> members[groupKeys[g]][j]]]

-----------------------------------------------------------------------------
(* C3 as claimed: whenever the configured grouping field is blank after    *)
(* trimming, for every input, the empty one included, execute throws the   *)
(* error with its description and has processed nothing and returned       *)
(* nothing.                                                                *)
C3_BlankFieldAlwaysFails ==
    (pc # "start" /\ IsBlank(fieldParam)) =>
        /\ pc = "error"
        /\ error = <<[message |-> sNoField, description |-> sPleaseSpecify]>>
        /\ itemIndex = 0 /\ fieldFoundInItems = <<>> /\ grouped = NewMap
        /\ hints = 0
        /\ outputItems = <<>>

\* C3, amended: the same for every non-empty input; an empty input returns
\* before the parameter is looked at
C3_BlankFieldFailsOnNonEmptyInput ==
    /\ (pc # "start" /\ IsBlank(fieldParam) /\ Len(items) > 0) =>
          /\ pc = "error"
          /\ error = <<[message |-> sNoField, description |-> sPleaseSpecify]>>
          /\ error[1].description # <<>>
          /\ itemIndex = 0 /\ fieldFoundInItems = <<>> /\ grouped = NewMap
          /\ hints = 0
          /\ outputItems = <<>>
    /\ (pc # "start" /\ Len(items) = 0) => (pc = "done" /\ error = NoError)
    /\ pc = "error" => (IsBlank(fieldParam) /\ Len(items) > 0)

\* a field of white space only, on an input of two items
C3_Witness ==
    /\ pc = "error"
    /\ fieldParam = <<" ">>
    /\ Len(items) = 2
    /\ error # NoError

-----------------------------------------------------------------------------
(* C4 as claimed: under `skip', when every item of a non-empty input is    *)
(* not found (absent, or null), execute returns an empty output without an *)
(* error and has raised the hint exactly once.                             *)
C4_SkipAllNotFoundHintsOnce ==
    (pc = "done" /\ Len(items) > 0 /\ handleMissingValues = "skip"
        /\ \A i \in Processed : NotFoundAt(i)) =>
        /\ error = NoError
        /\ outputItems = <<>>
        /\ hints = 1

\* C4, amended: the output is empty and there is no error; the hint is raised
\* exactly once when the field is absent (undefined) in every item, and not
\* at all when some item holds null there
C4_SkipAllNotFoundHintsWhenAbsent ==
    (pc = "done" /\ Len(items) > 0 /\ handleMissingValues = "skip"
        /\ \A i \in Processed : NotFoundAt(i)) =>
        /\ error = NoError
        /\ outputItems = <<>>
        /\ hints = IF \A i \in Processed : ValueAt(i) = Undef THEN 1 ELSE 0

\* every item of a two-item input lacks the field, and the hint was raised
C4_Witness ==
    /\ pc = "done"
    /\ Len(items) = 2
    /\ handleMissingValues = "skip"
    /\ \A i \in Processed : ValueAt(i) = Undef
    /\ hints = 1
    /\ outputItems = <<>>

-----------------------------------------------------------------------------
(* C6: without sorting, the output items come in first-seen order of their *)
(* keys: every retained item's normalized key is emitted, no key is        *)
(* emitted twice, and one key precedes another exactly when its first      *)
(* input item precedes the other's.                                        *)
C6_UnsortedIsFirstSeenOrder ==
    (Returned /\ sortGroups = "none") =>
        /\ Range(EmittedKeys) = {NormalizedAt(i) : i \in Retained}
        /\ \A a, b \in 1..Len(outputItems) :
              /\ (a # b => EmittedKeys[a] # EmittedKeys[b])
              /\ (a < b <=> FirstSeen(EmittedKeys[a]) < FirstSeen(EmittedKeys[b]))

\* three groups emitted in an order that is not the sorted one
C6_Witness ==
    /\ Returned
    /\ sortGroups = "none"
    /\ Len(outputItems) = 3
    /\ LocaleCompare(EmittedKeys[1], EmittedKeys[2]) > 0
    /\ EmittedKeys = <<NormalizedAt(0), NormalizedAt(1), NormalizedAt(2)>>

-----------------------------------------------------------------------------
(* C7 as claimed: with `asc' every adjacent pair of emitted keys compares  *)
(* less-or-equal, and with `desc' the emitted sequence is exactly the      *)
(* reverse of the one `asc' emits for the same groups.                     *)
C7_DescIsReverseOfAsc ==
    Returned =>
        /\ sortGroups = "asc" =>
              \A g \in 1..(Len(outputItems) - 1) : LocaleCompare(EmittedKeys[g], EmittedKeys[g + 1]) <= 0
        /\ sortGroups = "desc" => EmittedKeys = Reverse(Sort(MapKeys(grouped), "asc"))

NoTies(keys) == \A a, b \in 1..Len(keys) : a # b => LocaleCompare(keys[a], keys[b]) # 0

\* C7, amended: `asc' emits the keys in ascending and `desc' in descending
\* order; keys that compare equal stay in first-seen order in both modes, so
\* `desc' is the reverse of `asc' when no two keys of the input compare equal
C7_SortedAscendingOrDescending ==
    (Returned /\ sortGroups \in {"asc", "desc"}) =>
        LET keys == EmittedKeys
        IN  /\ Len(keys) = Len(MapKeys(grouped))
            /\ Range(keys) = Range(MapKeys(grouped))
            /\ \A g \in 1..(Len(keys) - 1) :
                  /\ sortGroups = "asc" => LocaleCompare(keys[g], keys[g + 1]) <= 0
                  /\ sortGroups = "desc" => LocaleCompare(keys[g], keys[g + 1]) >= 0
            /\ \A a, b \in 1..Len(keys) :
                  (a < b /\ LocaleCompare(keys[a], keys[b]) = 0) =>
                      FirstSeen(keys[a]) < FirstSeen(keys[b])
            /\ (sortGroups = "desc" /\ NoTies(keys)) =>
                  keys = Reverse(Sort(MapKeys(grouped), "asc"))

\* three groups, first seen in ascending order and emitted in descending order
C7_Witness ==
    /\ Returned
    /\ sortGroups = "desc"
    /\ Len(outputItems) = 3
    /\ NoTies(EmittedKeys)
    /\ FirstSeen(EmittedKeys[3]) < FirstSeen(EmittedKeys[2])
    /\ FirstSeen(EmittedKeys[2]) < FirstSeen(EmittedKeys[1])

-----------------------------------------------------------------------------
(* C8: two retained items are in the same group exactly when their values  *)
(* (after the substitution for a missing value) convert to the same        *)
(* string, and the key emitted for the group is that string, as a string.  *)
C8_SameGroupIffSameString ==
    /\ pc \in {"loop", "done"} =>
          /\ \A i \in Retained :
                /\ \E key \in DOMAIN members : \E h \in 1..Len(members[key]) : members[key][h] = i
                /\ GroupOf(i) = NormalizedAt(i)
          /\ \A i, j \in Retained :
                i < j => (GroupOf(i) = GroupOf(j) <=> NormalizedAt(i) = NormalizedAt(j))
    /\ Returned =>
          \A g \in 1..Len(outputItems) :
              /\ EmittedKey(g).t = "string"
              /\ \A h \in 1..Len(MemberList(g).v) :
                    \E i \in Retained : /\ items[i + 1] = MemberList(g).v[h]
                                        /\ NormalizedAt(i) = EmittedKey(g).v

\* the number 5 and the string "5" in one group keyed "5"
C8_Witness ==
    /\ Returned
    /\ Len(items) = 2
    /\ ValueAt(0) = Num(5)
    /\ ValueAt(1) = Str(<<"5">>)
    /\ Len(outputItems) = 1
    /\ EmittedKey(1) = Str(<<"5">>)
    /\ MemberList(1) = Arr(items)

-----------------------------------------------------------------------------
(* C9: an item whose field is not found is in no group under `skip', in    *)
(* the group keyed "undefined" under `groupUndefined', "null" under        *)
(* `groupNull' and "" under `groupEmpty'; when no item of the input has    *)
(* the field and the policy is `groupNull', the output is one group keyed  *)
(* "null" whose member list is the input.                                  *)
C9_MissingValuePolicy ==
    /\ pc \in {"loop", "done"} =>
          \A i \in Processed :
              NotFoundAt(i) =>
                  /\ handleMissingValues = "skip" => PlacesOf(i) = {}
                  /\ handleMissingValues = "groupUndefined" =>
                        OnlyIn(i, sUndefined)
                  /\ handleMissingValues = "groupNull" =>
                        OnlyIn(i, sNull)
                  /\ handleMissingValues = "groupEmpty" =>
                        OnlyIn(i, <<>>)
    /\ (pc = "done" /\ Len(items) > 0 /\ handleMissingValues = "groupNull"
           /\ \A i \in Processed : NotFoundAt(i)) =>
          /\ Len(outputItems) = 1
          /\ EmittedKey(1) = Str(sNull)
          /\ MemberList(1) = Arr(items)

\* three items without the field, one of them holding null, grouped under "null"
C9_Witness ==
    /\ pc = "done"
    /\ handleMissingValues = "groupNull"
    /\ Len(items) = 3
    /\ \A i \in Processed : NotFoundAt(i)
    /\ ValueAt(0) = Null /\ ValueAt(1) = Undef
    /\ Len(outputItems) = 1
    /\ EmittedKey(1) = Str(sNull)

\* the last dot-separated segment of a path
LastSegment(path) == Pop(Split(path, "."))

-----------------------------------------------------------------------------
(* C5 as claimed: every output item holds, together, the group key under   *)
(* the last dot-separated segment of the grouping path (when the key is    *)
(* included), the member list under the output-array name, and the number  *)
(* of members under the count name (when the count is included).           *)
C5_AllFieldsPresent ==
    Returned =>
        \A g \in 1..Len(outputItems) :
            LET json == outputItems[g].json.v
                list == MapGet(grouped, groupKeys[g])
            IN  /\ includeGroupKey =>
                      /\ LastSegment(fieldToGroupBy) \in DOMAIN json
                      /\ json[LastSegment(fieldToGroupBy)] = Str(groupKeys[g])
                /\ outputFieldName \in DOMAIN json
                /\ json[outputFieldName] = Arr(list)
                /\ includeItemCount =>
                      /\ itemCountFieldName \in DOMAIN json
                      /\ json[itemCountFieldName] = Num(Len(list))

\* C5, amended: the group-key field is named by the last segment of the path
\* when dot notation is enabled and by the whole path when it is disabled;
\* the fields are written in the order key, member list, count, and a later
\* one replaces an earlier one of the same name, so each field holds its
\* value when no later field has its name; the output item has no other field
C5_FieldsWithLaterOnesReplacing ==
    Returned =>
        \A g \in 1..Len(outputItems) :
            LET json == outputItems[g].json.v
                list == MapGet(grouped, groupKeys[g])
                keyName == IF disableDotNotation THEN fieldToGroupBy ELSE LastSegment(fieldToGroupBy)
            IN  /\ DOMAIN json = (IF includeGroupKey THEN {keyName} ELSE {})
                                    \cup {outputFieldName}
                                    \cup (IF includeItemCount THEN {itemCountFieldName} ELSE {})
                /\ includeItemCount => json[itemCountFieldName] = Num(Len(list))
                /\ (~includeItemCount \/ itemCountFieldName # outputFieldName) =>
                      json[outputFieldName] = Arr(list)
                /\ (/\ includeGroupKey
                    /\ keyName # outputFieldName
                    /\ (~includeItemCount \/ keyName # itemCountFieldName)) =>
                      json[keyName] = Str(groupKeys[g])

\* two groups by a nested path, with key, member list and count under three names
C5_Witness ==
    /\ Returned
    /\ firstRun = <<>>
    /\ fieldToGroupBy = uk /\ ~disableDotNotation
    /\ includeGroupKey /\ includeItemCount
    /\ Len(outputItems) = 2
    /\ DOMAIN outputItems[2].json.v = {k, sItems, sItemCount}
    /\ outputItems[2].json.v[k] = Str(groupKeys[2])
    /\ outputItems[2].json.v[sItemCount] = Num(2)

\* the run over the output of a first run has returned or thrown
SecondRunEnded == firstRun # <<>> /\ pc \in {"done", "error"}

-----------------------------------------------------------------------------
(* C10 as claimed: a run with `asc' and the group key included, fed with   *)
(* the output of such a run and grouping by the emitted group-key field,   *)
(* emits one group per group of the first run, with the same keys in the   *)
(* same order.                                                             *)
C10_RerunKeepsKeysAndOrder ==
    SecondRunEnded =>
        /\ pc = "done"
        /\ Len(outputItems) = Len(firstRun[1].groupKeys)
        /\ groupKeys = firstRun[1].groupKeys

\* the emitted group-key field still holds the key and can be named again:
\* its name is not blank, has no white space at either end, and is neither
\* the output-array name nor the name of an included count
KeyFieldIntact ==
    /\ ~IsBlank(fieldParam)
    /\ ~IsBlank(<<fieldParam[1]>>) /\ ~IsBlank(<<fieldParam[Len(fieldParam)]>>)
    /\ fieldParam # outputFieldName
    /\ includeItemCount => fieldParam # itemCountFieldName

\* C10, amended: the same, provided the emitted group-key field is intact
C10_RerunKeepsKeysWhenKeyFieldIntact ==
    (SecondRunEnded /\ KeyFieldIntact) =>
        /\ pc = "done"
        /\ Len(outputItems) = Len(firstRun[1].groupKeys)
        /\ groupKeys = firstRun[1].groupKeys
        /\ \A g \in 1..Len(outputItems) : Len(MapGet(grouped, groupKeys[g])) = 1

\* a second run over three groups that the first run had to reorder
C10_Witness ==
    /\ SecondRunEnded
    /\ KeyFieldIntact
    /\ pc = "done"
    /\ Len(groupKeys) = 3
    /\ firstRun[1].firstSeen # firstRun[1].groupKeys
    /\ groupKeys = firstRun[1].groupKeys

-----------------------------------------------------------------------------
(* C11: for an empty input, whatever the configuration, execute returns an *)
(* empty output, throws nothing and raises no hint, and none of the later  *)
(* steps takes place: no parameter is read or checked, no item is grouped, *)
(* no key is sorted and no output item is built.                           *)
C11_EmptyInputReturnsAtOnce ==
    (pc # "start" /\ Len(items) = 0) =>
        /\ pc = "done"
        /\ outputItems = <<>>
        /\ error = NoError
        /\ hints = 0
        /\ fieldToGroupBy = <<>> /\ outputFieldName = <<>>
        /\ handleMissingValues = "" /\ sortGroups = ""
        /\ itemIndex = 0 /\ fieldFoundInItems = <<>>
        /\ grouped = NewMap /\ members = <<>>
        /\ groupKeys = <<>>

\* an empty input under a configuration whose grouping field is blank
C11_Witness ==
    /\ pc = "done"
    /\ Len(items) = 0
    /\ fieldParam = <<" ">>
    /\ error = NoError
    /\ outputItems = <<>>

-----------------------------------------------------------------------------
(* Vocabulary of field-path resolution *)

\* the property of a mapping named by the whole string, or undefined
OwnProperty(json, name) == IF name \in DOMAIN json.v THEN json.v[name] ELSE Undef

\* the walk the claim describes: only a mapping that has the segment is descended
RECURSIVE WalkMappings(_, _)
WalkMappings(value, segments) ==
    IF segments = <<>> THEN value
    ELSE IF value.t # "object" THEN Undef
    ELSE IF Head(segments) \notin DOMAIN value.v THEN Undef
    ELSE WalkMappings(value.v[Head(segments)], Tail(segments))

\* what a segment selects in a value that is neither null nor undefined: a key of
\* a mapping, a position or `length' of a sequence or of a string, else nothing
Child(value, segment) ==
    LET indexed == IsIndex(segment) /\ ParseNat(segment, 0) < Len(value.v)
    IN  CASE value.t = "object" -> OwnProperty(value, segment)
          [] value.t = "array" /\ segment = sLength -> Num(Len(value.v))
          [] value.t = "array" /\ segment # sLength /\ indexed -> value.v[ParseNat(segment, 0) + 1]
          [] value.t = "string" /\ segment = sLength -> Num(Len(value.v))
          [] value.t = "string" /\ segment # sLength /\ indexed -> Str(<<value.v[ParseNat(segment, 0) + 1]>>)
          [] OTHER -> Undef

RECURSIVE Descend(_, _)
Descend(value, segments) ==
    IF segments = <<>> THEN value
    ELSE IF value.t \in {"undefined", "null"} THEN Undef
    ELSE Descend(Child(value, Head(segments)), Tail(segments))

\* the walk passes through a string before its last step
RECURSIVE MeetsString(_, _)
MeetsString(value, segments) ==
    /\ segments # <<>>
    /\ value.t \notin {"undefined", "null"}
    /\ \/ value.t = "string"
       \/ MeetsString(Child(value, Head(segments)), Tail(segments))

-----------------------------------------------------------------------------
(* C12 as claimed: with nested lookup enabled the value of the field is    *)
(* what the walk over the dot-separated segments yields, and the walk      *)
(* stops with not-found at a value that is null, absent or not a mapping;  *)
(* with nested lookup disabled it is the property named by the whole path; *)
(* so an item has the field only when every step is a mapping holding the  *)
(* next segment.  Resolution never throws.                                 *)
C12_FoundOnlyThroughMappings ==
    pc \in {"loop", "done"} =>
        /\ error = NoError
        /\ \A i \in Processed :
              LET claimed == IF disableDotNotation
                             THEN OwnProperty(items[i + 1], fieldToGroupBy)
                             ELSE WalkMappings(items[i + 1], Split(fieldToGroupBy, "."))
              IN  /\ NotFoundAt(i) <=> claimed.t \in {"undefined", "null"}
                  /\ ~NotFoundAt(i) => ValueAt(i) = claimed

\* C12, amended: with nested lookup enabled, a path that names a property of
\* the record as a whole is looked up as that one key; otherwise the segments
\* are walked, the walk stops with not-found at null, undefined, a number or
\* a boolean, and descends into a mapping by key and into a sequence or a
\* string by position or `length'; with nested lookup disabled the whole
\* path is one top-level key.  Resolution never throws.  The older walker
\* (getNestedValue) yields the same value when the whole path is no property
\* of the record and the walk passes through no string.
C12_LiteralKeyThenWalk ==
    pc \in {"loop", "done"} =>
        /\ error = NoError
        /\ \A i \in Processed :
              LET json == items[i + 1]
                  segments == Split(fieldToGroupBy, ".")
              IN  /\ disableDotNotation => ValueAt(i) = OwnProperty(json, fieldToGroupBy)
                  /\ (~disableDotNotation /\ fieldToGroupBy \in DOMAIN json.v) =>
                        ValueAt(i) = json.v[fieldToGroupBy]
                  /\ (~disableDotNotation /\ fieldToGroupBy \notin DOMAIN json.v) =>
                        /\ ValueAt(i) = Descend(json, segments)
                        /\ ~MeetsString(json, segments) =>
                              GetNestedValue(json, fieldToGroupBy) = ValueAt(i)

\* the length of a string found as the field, next to an item whose walk ends at a number
C12_Witness ==
    /\ pc = "done"
    /\ ~disableDotNotation
    /\ fieldToGroupBy = uLength
    /\ items = <<Rec5, Rec7>>
    /\ ValueAt(0) = Num(2)
    /\ ValueAt(1) = Undef
    /\ fieldFoundInItems = <<TRUE, FALSE>>

====
